---------------------------- MODULE Spec2Model ----------------------------
(***************************************************************************)
(* Model of proj2_nps.py: the persistent cache (open_cache / save_cache),  *)
(* the lazy three-level resolution (state index, sites of a state, nearby  *)
(* places of a site) and the two nested prompt loops of main().            *)
(*                                                                         *)
(* Text typed by the user and dictionary keys are sequences of one-letter  *)
(* strings, so that str.lower(), str(n) and int(s) are computed and not    *)
(* assumed.  Field values that the program only copies are plain strings.  *)
(***************************************************************************)
EXTENDS Integers, Sequences, FiniteSets, TLC

(* ------------------------------ bounds --------------------------------- *)
\* longest list of sites the sites-list gateway returns for a state page
MaxSites == 2
\* longest list of matches the nearby-places gateway returns
MaxMatches == 1

(* ------------------------------ text ----------------------------------- *)
EXIT == <<"e", "x", "i", "t">>
BACK == <<"b", "a", "c", "k">>
STATE_URL == <<"s", "t", "a", "t", "e", "_", "u", "r", "l">>
MICHIGAN == <<"m", "i">>
OHIO == <<"o", "h">>
\* what input() yields when the input stream ends or is interrupted
EOF == <<"^", "D">>

LowerOf == [M |-> "m", I |-> "i", O |-> "o", H |-> "h", E |-> "e",
            X |-> "x", T |-> "t", B |-> "b", A |-> "a", C |-> "c", K |-> "k"]

\* str.lower() of one letter
LowerChar(c) == IF c \in DOMAIN LowerOf THEN LowerOf[c] ELSE c

\* str.strip(): the text without its leading and trailing spaces
Strip(s) ==
    LET kept == {i \in DOMAIN s : s[i] # " "} IN
    IF kept = {} THEN <<>>
    ELSE SubSeq(s, CHOOSE i \in kept : \A j \in kept : i <= j,
                   CHOOSE i \in kept : \A j \in kept : j <= i)

\* variant: .strip().lower()
LowerAndStrip(s) == [i \in DOMAIN Strip(s) |-> LowerChar(Strip(s)[i])]

\* str.lower(), letter by letter; nothing is trimmed
Lower(s) == [i \in DOMAIN s |-> LowerChar(s[i])]

Digits == <<"0", "1", "2", "3", "4", "5", "6", "7", "8", "9">>

\* str(n) for n >= 0
RECURSIVE str(_)
str(n) == IF n < 10 THEN <<Digits[n + 1]>>
          ELSE str(n \div 10) \o <<Digits[(n % 10) + 1]>>

DigitVal(c) == CHOOSE d \in 0..9 : Digits[d + 1] = c

\* int(s) for a string of decimal digits
RECURSIVE int(_)
int(s) == IF Len(s) = 1 THEN DigitVal(s[1])
          ELSE 10 * int(SubSeq(s, 1, Len(s) - 1)) + DigitVal(s[Len(s)])

\* the texts a user types at either prompt
Inputs == { MICHIGAN, <<"M", "i">>, <<" ", "m", "i">>, OHIO, <<"a", "t">>,
            EXIT, <<"E", "X", "I", "T">>, BACK,
            <<"0">>, <<"1">>, <<"2">>, <<"0", "1">> }

(* --------------------------- dictionaries ------------------------------ *)
EmptyDict == <<>>

\* d[k] = v
DictSet(d, k, v) == [x \in (DOMAIN d) \cup {k} |-> IF x = k THEN v ELSE d[x]]

\* the test "if d.get(k):" : the key is present and its value is not empty
GetTruthy(d, k) == k \in DOMAIN d /\ DOMAIN d[k] # {}

(* ------------------------------ records -------------------------------- *)
\* NationalSite.__init__ followed by to_dict(): the instance's __dict__
NationalSite(category, name, address, zipcode, phone) ==
    [category |-> category, name |-> name, address |-> address,
     zipcode |-> zipcode, phone |-> phone]

HOME_URL == "https://www.nps.gov/index.htm"
MI_URL == "https://www.nps.gov/state/mi/index.htm"
OH_URL == "https://www.nps.gov/state/oh/index.htm"

(* ------------------------------ gateways ------------------------------- *)
\* the links of the home page, as (link text, address) pairs; the page may
\* list no state at all
HomePages == { <<>>,
               << [text |-> <<"M", "i">>, link |-> MI_URL],
                  [text |-> <<"O", "h">>, link |-> OH_URL] >> }

\* lines 116-120: df[href.text.lower()] = link, for every link of the page
StateUrlDict(hrefs) ==
    [k \in {Lower(hrefs[i].text) : i \in DOMAIN hrefs} |->
        hrefs[CHOOSE i \in DOMAIN hrefs :
                /\ Lower(hrefs[i].text) = k
                /\ \A j \in DOMAIN hrefs : Lower(hrefs[j].text) = k => j <= i].link]

Min(a, b) == IF a < b THEN a ELSE b

\* the sites a state page can list, in page order
PageSites(url) ==
    IF url = MI_URL
    THEN << NationalSite("National Park", "Isle Royale", "Houghton, MI", "49931", "(906) 482-0984"),
            NationalSite("", "Keweenaw", "", "", "(906) 337-3168"),
            NationalSite("National Lakeshore", "Pictured Rocks", "Munising, MI", "49862", "(906) 387-3700"),
            NationalSite("National Battlefield", "River Raisin", "Monroe, MI", "48162", "(734) 243-7136") >>
    ELSE << NationalSite("National Park", "Cuyahoga Valley", "Brecksville, OH", "44141", "(440) 717-3890") >>

\* what get_sites_for_state(url) can return: the page lists none, some or
\* all of its sites
SitesResults(url) ==
    { SubSeq(PageSites(url), 1, n) : n \in 0..Min(MaxSites, Len(PageSites(url))) }

\* a raw match of the places API
RawMatch(name, group, address, city) ==
    [name |-> name,
     fields |-> [group_sic_code_name |-> group, address |-> address, city |-> city]]

\* the matches the places API knows around a postal code, nearest first;
\* any of group, address and city may be the empty string
RawMatches(zipcode) ==
    IF zipcode = "49931"
    THEN << RawMatch("Joe's Cafe", "Eating Places", "1 Main St", "Houghton"),
            RawMatch("Pier", "", "", ""),
            RawMatch("Museum", "Museums", "", "Hancock") >>
    ELSE << RawMatch("Pier", "", "", ""),
            RawMatch("Joe's Cafe", "Eating Places", "1 Main St", "Houghton"),
            RawMatch("Depot", "", "2 Rail Rd", "") >>

\* tmp_sites_list['searchResults'] of a complete API answer: none, some or
\* all of the matches around the origin
SearchResults(zipcode) ==
    { SubSeq(RawMatches(zipcode), 1, n) : n \in 0..Min(MaxMatches, Len(RawMatches(zipcode))) }

\* variant: the city is copied without the placeholder
NearbyPlaceRawCity(site) ==
    [name |-> site.name,
     category |-> IF site.fields.group_sic_code_name = "" THEN "no category"
                  ELSE site.fields.group_sic_code_name,
     address |-> IF site.fields.address = "" THEN "no address" ELSE site.fields.address,
     city |-> site.fields.city]

\* lines 280-285: one stored nearby place per raw match
NearbyPlace(site) ==
    [name |-> site.name,
     category |-> IF site.fields.group_sic_code_name = "" THEN "no category"
                  ELSE site.fields.group_sic_code_name,
     address |-> IF site.fields.address = "" THEN "no address" ELSE site.fields.address,
     city |-> IF site.fields.city = "" THEN "no city" ELSE site.fields.city]

NearbyList(results) == [i \in DOMAIN results |-> NearbyPlace(results[i])]

Call(gateway, arg) == [gateway |-> gateway, arg |-> arg]

\* a gateway call either raises or returns a value
Raises(exc) == [raises |-> exc, value |-> <<>>]
Returns(value) == [raises |-> "none", value |-> value]

\* requests.get(home_url) and the parse of the home page, lines 113-115
IndexResponses == {Raises("RequestException")} \cup {Returns(h) : h \in HomePages}

\* get_sites_for_state(state_url), lines 167-175
SitesResponses(url) ==
    {Raises("RequestException")} \cup {Returns(l) : l \in SitesResults(url)}

\* get_nearby_places(site) followed by the reads of lines 280-285: the
\* request raises, the answer lacks searchResults or one of the fields read
\* (KeyError), or the answer is complete
NearbyResponses(zipcode) ==
    {Raises("RequestException"), Raises("KeyError")} \cup
    {Returns(r) : r \in SearchResults(zipcode)}

(* --------------------------- persisted file ---------------------------- *)
\* json.dumps of the cache dictionary: a JSON object with the same members
Dumps(cache_dict) == [kind |-> "json", type |-> "dict", doc |-> cache_dict]

NoFile == [kind |-> "absent", type |-> "none", doc |-> EmptyDict]
\* text that json.loads rejects (also a file truncated by a failed write)
CorruptFile == [kind |-> "corrupt", type |-> "none", doc |-> EmptyDict]
\* valid JSON that is not an object, e.g. the text "[]"
ListFile == [kind |-> "json", type |-> "list", doc |-> EmptyDict]

FullIndex == StateUrlDict(CHOOSE h \in HomePages : Len(h) = 2)

WithNearby(site, places) == site @@ [nearby |-> places]

\* files an earlier run of the program leaves behind
SavedFiles ==
    { Dumps(DictSet(EmptyDict, STATE_URL, FullIndex)),
      Dumps(DictSet(DictSet(EmptyDict, STATE_URL, FullIndex), MICHIGAN, <<>>)),
      Dumps(DictSet(DictSet(EmptyDict, STATE_URL, FullIndex), MICHIGAN,
                    << WithNearby(PageSites(MI_URL)[1],
                                  NearbyList(SubSeq(RawMatches("49931"), 1, 1))),
                       PageSites(MI_URL)[2] >>)),
      Dumps(DictSet(DictSet(EmptyDict, STATE_URL, FullIndex), OHIO,
                    << WithNearby(PageSites(OH_URL)[1], <<>>) >>)) }

\* the file is absent, unreadable, not an object, the empty object "{}", or
\* was written by an earlier run
InitFiles == {NoFile, CorruptFile, ListFile, Dumps(EmptyDict)} \cup SavedFiles

(* ------------------------------- state --------------------------------- *)
VARIABLES
    disk,         \* content of the file CACHE_FILENAME
    cache,        \* the module-level dictionary `cache` (its items)
    cache_type,   \* the Python type of `cache`: "dict", or "list" for any other JSON value
    pc,           \* "init", "main", "choosing", "viewing", "exited", "crashed"
    state_urls,   \* main's local state_urls
    state_name,   \* main's local state_name
    input,        \* the text read by the last input() call
    calls,        \* the gateway calls made by the last step, in order
    displayed,    \* the list printed by the last step
    raised,       \* the exception raised by the last step, "none" if none
    exit_status,  \* process exit status, -1 while running
    flushes,      \* number of completed save_cache calls
    shown,        \* history: (state, ordinal) |-> nearby list first displayed in this run
    typed_state   \* history: the text last read at the state prompt, as typed

vars == <<disk, cache, cache_type, pc, state_urls, state_name, input, calls,
          displayed, raised, exit_status, flushes, shown, typed_state>>

\* main's local sites_list: the same list object as cache[state_name]
sites_list == cache[state_name]

Init ==
    /\ disk \in InitFiles
    /\ cache = EmptyDict
    /\ cache_type = "dict"
    /\ pc = "init"
    /\ state_urls = EmptyDict
    /\ state_name = <<>>
    /\ input = <<>>
    /\ calls = <<>>
    /\ displayed = <<>>
    /\ raised = "none"
    /\ exit_status = -1
    /\ flushes = 0
    /\ shown = EmptyDict
    /\ typed_state = <<>>


(* ------------------------------ helpers -------------------------------- *)
\* list[i] for a Python index i (negative indices count from the end)
Item(list, i) == IF i >= 0 THEN list[i + 1] ELSE list[Len(list) + i + 1]

\* variant: range(len(sites_list)), the zero-based positions
SiteNumbersZeroBased(list) == { str(x) : x \in 0..(Len(list) - 1) }

\* line 272: the texts str(x) for x in range(1, len(sites_list) + 1)
SiteNumbers(list) == { str(x) : x \in 1..Len(list) }

\* line 253: the name is neither a key of state_urls nor "exit"
IsUnknownState(name, urls) == name \notin DOMAIN urls /\ name # EXIT

\* lines 240-246: the numbered lines display_sites_info prints
display_sites_info(list) ==
    [i \in DOMAIN list |->
        [num |-> i, name |-> list[i].name, category |-> list[i].category,
         address |-> list[i].address, zipcode |-> list[i].zipcode]]

\* lines 216-221: the lines display_nearby_places_info prints
display_nearby_places_info(places_dict) ==
    [i \in DOMAIN places_dict |->
        [name |-> places_dict[i].name, category |-> places_dict[i].category,
         address |-> places_dict[i].address, city |-> places_dict[i].city]]

\* lines 31-38: the value open_cache returns for a file content
open_cache(file) ==
    IF file.kind = "json" THEN [type |-> file.type, items |-> file.doc]
    ELSE [type |-> "dict", items |-> EmptyDict]

\* how the write of save_cache can end: done, open() raises, write() raises
StorageOutcomes == {"written", "open_fails", "write_fails"}

\* variant: only the state index is written
save_cache_index_only(cache_dict, storage) ==
    CASE storage = "written" ->
            Dumps([k \in (DOMAIN cache_dict) \cap {STATE_URL} |-> cache_dict[k]])
      [] storage = "open_fails" -> disk
      [] OTHER -> CorruptFile

\* lines 52-55: the file content save_cache leaves
save_cache(cache_dict, storage) ==
    CASE storage = "written" -> Dumps(cache_dict)
      [] storage = "open_fails" -> disk
      [] OTHER -> CorruptFile

\* an uncaught exception ends the process with a traceback
Crash(exc) ==
    /\ pc' = "crashed"
    /\ raised' = exc
    /\ exit_status' = 1

\* the step completes without an exception
Continue(next_pc) ==
    /\ pc' = next_pc
    /\ raised' = "none"
    /\ exit_status' = exit_status

\* variant: the index is returned but not put in the cache
StoreIndexNowhere(c, resp) == c

\* lines 113-121: the cache after the fetch of the state index
StoreIndex(c, resp) ==
    IF resp.raises # "none" THEN c
    ELSE DictSet(c, STATE_URL, StateUrlDict(resp.value))

\* lines 266-267: the cache after the fetch of a state's sites
StoreSites(c, name, resp) ==
    IF resp.raises # "none" THEN c
    ELSE DictSet(c, name, resp.value)

\* variant: the list is attached to a copy of the record, not to the cache
StoreNearbyInCopy(c, name, site_num, resp) == c

\* variant: the record at Python index site_num - 1 is addressed
StoreNearbyOffByOne(c, name, site_num, resp) ==
    IF resp.raises # "none" THEN c
    ELSE [c EXCEPT ![name] =
            [@ EXCEPT ![IF site_num = 0 THEN Len(c[name]) ELSE site_num] =
                DictSet(Item(c[name], site_num - 1), "nearby", NearbyList(resp.value))]]

\* variant: whatever was read before the exception is attached
StoreNearbyOnFailure(c, name, site_num, resp) ==
    [c EXCEPT ![name] =
        [@ EXCEPT ![site_num + 1] =
            DictSet(Item(c[name], site_num), "nearby", NearbyList(resp.value))]]

\* lines 279-286: the cache after the fetch of the nearby places of the
\* site at Python index site_num of state name
StoreNearby(c, name, site_num, resp) ==
    IF resp.raises # "none" THEN c
    ELSE [c EXCEPT ![name] =
            [@ EXCEPT ![site_num + 1] =
                DictSet(Item(c[name], site_num), "nearby", NearbyList(resp.value))]]

(* ------------------------------ actions -------------------------------- *)
\* line 57: cache = open_cache(), at import
OpenCache ==
    /\ pc = "init"
    /\ cache' = open_cache(disk).items
    /\ cache_type' = open_cache(disk).type
    /\ Continue("main")
    /\ UNCHANGED <<disk, state_urls, state_name, input, calls, displayed, flushes, shown,
                   typed_state>>

\* lines 107-122, called at line 249
BuildStateUrlDict ==
    /\ pc = "main"
    /\ IF cache_type # "dict"
       THEN \* cache.get on a list: AttributeError
            /\ Crash("AttributeError")
            /\ UNCHANGED <<cache, state_urls, calls>>
       ELSE IF GetTruthy(cache, STATE_URL)
       THEN /\ state_urls' = cache[STATE_URL]
            /\ Continue("choosing")
            /\ UNCHANGED <<cache, calls>>
       ELSE \E resp \in IndexResponses :
               /\ calls' = <<Call("index", HOME_URL)>>
               /\ cache' = StoreIndex(cache, resp)
               /\ IF resp.raises # "none"
                  THEN /\ Crash(resp.raises)
                       /\ UNCHANGED state_urls
                  ELSE /\ state_urls' = StateUrlDict(resp.value)
                       /\ Continue("choosing")
    /\ UNCHANGED <<disk, cache_type, state_name, input, displayed, flushes, shown,
                   typed_state>>

\* variant: exit() without save_cache
ExitWithoutSave ==
    /\ disk' = disk
    /\ flushes' = flushes
    /\ pc' = "exited"
    /\ raised' = "none"
    /\ exit_status' = 0

\* lines 257-258 and 289-290: save_cache(cache); exit()
SaveAndExit ==
    \E storage \in StorageOutcomes :
        /\ disk' = save_cache(cache, storage)
        /\ IF storage = "written"
           THEN /\ flushes' = flushes + 1
                /\ pc' = "exited"
                /\ raised' = "none"
                /\ exit_status' = 0
           ELSE /\ flushes' = flushes
                /\ Crash("OSError")

\* lines 260-268: the sites of a valid state, from the cache or fetched
ResolveSites(name) ==
    IF GetTruthy(cache, name)
    THEN /\ displayed' = display_sites_info(cache[name])
         /\ Continue("viewing")
         /\ calls' = <<>>
         /\ UNCHANGED cache
    ELSE \E resp \in SitesResponses(state_urls[name]) :
            /\ calls' = <<Call("sites", state_urls[name])>>
            /\ cache' = StoreSites(cache, name, resp)
            /\ IF resp.raises # "none"
               THEN /\ Crash(resp.raises)
                    /\ displayed' = <<>>
               ELSE /\ displayed' = display_sites_info(resp.value)
                    /\ Continue("viewing")

\* lines 252-268: one pass of the outer loop
StatePrompt(text) ==
    /\ pc = "choosing"
    /\ input' = text
    /\ typed_state' = text
    /\ state_name' = Lower(text)
    /\ IF IsUnknownState(Lower(text), state_urls)
       THEN /\ Continue("choosing")
            /\ calls' = <<>>
            /\ displayed' = <<>>
            /\ UNCHANGED <<disk, cache, flushes>>
       ELSE IF Lower(text) = EXIT
       THEN /\ SaveAndExit
            /\ calls' = <<>>
            /\ displayed' = <<>>
            /\ UNCHANGED cache
       ELSE /\ ResolveSites(Lower(text))
            /\ UNCHANGED <<disk, flushes>>
    /\ UNCHANGED <<cache_type, state_urls, shown>>

\* the history of first displays, extended by a displayed nearby list
Remember(ordinal, places) ==
    IF <<state_name, ordinal>> \in DOMAIN shown THEN shown
    ELSE DictSet(shown, <<state_name, ordinal>>, places)

\* lines 273-287: the nearby places of the chosen site, from the cache or fetched
ResolveNearby(site_num) ==
    LET site == Item(cache[state_name], site_num) IN
    IF GetTruthy(site, "nearby")
    THEN /\ displayed' = display_nearby_places_info(site.nearby)
         /\ shown' = Remember(site_num + 1, display_nearby_places_info(site.nearby))
         /\ Continue("viewing")
         /\ calls' = <<>>
         /\ UNCHANGED cache
    ELSE IF "nearby" \in DOMAIN site
    THEN \* NationalSite(**site) with the extra keyword nearby: TypeError
         /\ Crash("TypeError")
         /\ calls' = <<>>
         /\ displayed' = <<>>
         /\ UNCHANGED <<cache, shown>>
    ELSE \E resp \in NearbyResponses(site.zipcode) :
            /\ calls' = <<Call("nearby", site.zipcode)>>
            /\ cache' = StoreNearby(cache, state_name, site_num, resp)
            /\ IF resp.raises # "none"
               THEN /\ Crash(resp.raises)
                    /\ displayed' = <<>>
                    /\ UNCHANGED shown
               ELSE /\ displayed' = display_nearby_places_info(NearbyList(resp.value))
                    /\ shown' = Remember(site_num + 1,
                                    display_nearby_places_info(NearbyList(resp.value)))
                    /\ Continue("viewing")

\* lines 271-294: one pass of the inner loop
SitePrompt(text) ==
    /\ pc = "viewing"
    /\ input' = text
    /\ IF text \in SiteNumbers(sites_list)
       THEN /\ ResolveNearby(int(text) - 1)
            /\ UNCHANGED <<disk, flushes>>
       ELSE IF text = EXIT
       THEN /\ SaveAndExit
            /\ calls' = <<>>
            /\ displayed' = <<>>
            /\ UNCHANGED <<cache, shown>>
       ELSE IF text = BACK
       THEN /\ Continue("choosing")
            /\ calls' = <<>>
            /\ displayed' = <<>>
            /\ UNCHANGED <<disk, cache, flushes, shown>>
       ELSE /\ Continue("viewing")
            /\ calls' = <<>>
            /\ displayed' = <<>>
            /\ UNCHANGED <<disk, cache, flushes, shown>>
    /\ UNCHANGED <<cache_type, state_urls, state_name, typed_state>>

\* lines 252 and 271: input() itself raises (end of input, interrupt)
Abort ==
    /\ pc \in {"choosing", "viewing"}
    /\ input' = EOF
    /\ Crash("EOFError")
    /\ calls' = <<>>
    /\ displayed' = <<>>
    /\ UNCHANGED <<disk, cache, cache_type, state_urls, state_name, flushes, shown,
                   typed_state>>

Next ==
    \/ OpenCache
    \/ BuildStateUrlDict
    \/ \E text \in Inputs : StatePrompt(text)
    \/ \E text \in Inputs : SitePrompt(text)
    \/ Abort

Spec == Init /\ [][Next]_vars

\* lines 107-122 run once more in the same process, after line 249 returned:
\* a second call of build_state_url_dict()
BuildStateUrlDictAgain ==
    /\ pc = "choosing"
    /\ IF GetTruthy(cache, STATE_URL)
       THEN /\ state_urls' = cache[STATE_URL]
            /\ Continue("choosing")
            /\ UNCHANGED <<cache, calls>>
       ELSE \E resp \in IndexResponses :
               /\ calls' = <<Call("index", HOME_URL)>>
               /\ cache' = StoreIndex(cache, resp)
               /\ IF resp.raises # "none"
                  THEN /\ Crash(resp.raises)
                       /\ UNCHANGED state_urls
                  ELSE /\ state_urls' = StateUrlDict(resp.value)
                       /\ Continue("choosing")
    /\ UNCHANGED <<disk, cache_type, state_name, input, displayed, flushes, shown,
                   typed_state>>

NextTwice ==
    \/ Next
    \/ BuildStateUrlDictAgain

\* the program with build_state_url_dict() also called a second time
SpecTwice == Init /\ [][NextTwice]_vars

TypeOK ==
    /\ pc \in {"init", "main", "choosing", "viewing", "exited", "crashed"}
    /\ cache_type \in {"dict", "list"}
    /\ flushes \in 0..1
    /\ exit_status \in {-1, 0, 1}

(* ----------------------- vocabulary of the claims ----------------------- *)
\* the state bound as context of the site list, if any
BoundState(p, name) == IF p = "viewing" THEN {name} ELSE {}

\* this step reads a text at the state prompt
AtStatePrompt == pc = "choosing" /\ input' # EOF

\* this step reads a text at the site prompt
AtSitePrompt == pc = "viewing" /\ input' # EOF

\* this step reads the exit command
ExitTyped ==
    \/ AtStatePrompt /\ Lower(input') = EXIT
    \/ AtSitePrompt /\ input' = EXIT

IsDigits(text) == text # <<>> /\ \A i \in DOMAIN text : \E d \in DOMAIN Digits : Digits[d] = text[i]

\* the text is an integer string whose value lies in lo..hi
IsIntegerIn(text, lo, hi) == IsDigits(text) /\ int(text) \in lo..hi

\* this step reads an invalid input
InvalidTyped ==
    \/ AtStatePrompt /\ Lower(input') \notin DOMAIN state_urls /\ Lower(input') # EXIT
    \/ /\ AtSitePrompt
       /\ input' \notin {EXIT, BACK}
       /\ ~IsIntegerIn(input', 1, Len(sites_list))

NoSitesCall(cs) == \A i \in DOMAIN cs : cs[i].gateway # "sites"

(* -------------------------------- C1 ----------------------------------- *)
\* C1: selecting a valid state whose key has an entry in the cache, whatever
\* list the entry holds, makes no sites-list gateway call and returns the
\* entry verbatim (the cache, nearby lists included, is left as it was).
C1_CachedStateServedVerbatim ==
    [][ \A name \in DOMAIN state_urls :
          (AtStatePrompt /\ Lower(input') = name /\ name # EXIT /\ name \in DOMAIN cache)
          => /\ NoSitesCall(calls')
             /\ pc' = "viewing"
             /\ cache' = cache
             /\ displayed' = display_sites_info(cache[name]) ]_vars

(* -------------------------------- C2 ----------------------------------- *)
\* C2: once ordinal n of a state has been chosen and its nearby list
\* displayed in this run, every later choice of n for that state makes no
\* gateway call and displays the same list.
C2_RepeatedChoiceServedFromCache ==
    [][ \A key \in DOMAIN shown :
          (AtSitePrompt /\ key[1] = state_name /\ input' = str(key[2]))
          => /\ calls' = <<>>
             /\ raised' = "none"
             /\ pc' = "viewing"
             /\ displayed' = shown[key] ]_vars

(* -------------------------------- C3 ----------------------------------- *)
\* C3: when a gateway call fails the session does not terminate: the
\* controller stays in the state it was in, with the same bound state (a
\* failed index fetch at start-up leaves it at the state prompt).
C3_GatewayFailureKeepsSession ==
    [][ (calls' # <<>> /\ raised' = "RequestException")
        => /\ pc' = (IF pc = "main" THEN "choosing" ELSE pc)
           /\ BoundState(pc', state_name') = BoundState(pc, state_name) ]_vars

(* -------------------------------- C4 ----------------------------------- *)
\* C4: a gateway call that fails, or a nearby answer that lacks an expected
\* field, leaves the in-memory cache exactly as it was before the call.
C4_FailedFetchLeavesCache ==
    [][ (calls' # <<>> /\ raised' \in {"RequestException", "KeyError"})
        => cache' = cache ]_vars

\* a nearby lookup got an incomplete answer for a site without nearby list
C4_Witness ==
    /\ raised = "KeyError"
    /\ calls = <<Call("nearby", "49931")>>
    /\ MICHIGAN \in DOMAIN cache
    /\ "nearby" \notin DOMAIN cache[MICHIGAN][1]

(* -------------------------------- C5 ----------------------------------- *)
\* C5: at either prompt the exit command, when the file accepts the write,
\* flushes the whole cache to disk, making exactly one flush of the run,
\* and ends the process with status 0; the process is never in Exited
\* without that flush.
C5_ExitFlushesOnce ==
    [][ /\ (ExitTyped /\ raised' # "OSError")
           => /\ pc' = "exited"
              /\ exit_status' = 0
              /\ flushes = 0 /\ flushes' = 1
              /\ disk' = Dumps(cache)
        /\ (pc' = "exited" /\ pc # "exited")
           => /\ ExitTyped
              /\ flushes' = 1
              /\ disk' = Dumps(cache) ]_vars

\* exit typed at the site prompt after a state was fetched
C5_Witness ==
    /\ pc = "exited"
    /\ input = EXIT
    /\ state_name = MICHIGAN
    /\ MICHIGAN \in DOMAIN cache
    /\ flushes = 1
    /\ exit_status = 0

(* -------------------------------- C6 ----------------------------------- *)
\* C6: whatever the persisted file holds (absent, unparseable, or JSON that
\* is not a keyed store), the loaded store is an empty dictionary and
\* start-up does not fail because of the file's content.
C6_AnyFileLoadsAsEmptyStore ==
    /\ (pc = "main" /\ ~(disk.kind = "json" /\ disk.type = "dict"))
       => (cache_type = "dict" /\ cache = EmptyDict)
    /\ raised # "AttributeError"

(* -------------------------------- C7 ----------------------------------- *)
\* C7: an invalid input (unknown state name at the state prompt; at the site
\* prompt anything but an integer string in 1..len(sites), "back" or "exit")
\* leaves the controller state, the bound state, the cache and the disk
\* unchanged and makes no gateway call.
C7_InvalidInputChangesNothing ==
    [][ InvalidTyped
        => /\ pc' = pc
           /\ BoundState(pc', state_name') = BoundState(pc, state_name)
           /\ cache' = cache
           /\ disk' = disk
           /\ raised' = "none"
           /\ calls' = <<>> ]_vars

\* "0" was typed at the site prompt of a state with sites
C7_Witness ==
    /\ pc = "viewing"
    /\ input = <<"0">>
    /\ Len(sites_list) > 0
    /\ raised = "none"

(* -------------------------------- C8 ----------------------------------- *)
\* C8: within a run no cache key is removed, and the site records of a state
\* and their nearby lists never shrink or change, except that a site record
\* may gain a nearby list it did not have.
C8_CacheOnlyAccumulates ==
    [][ pc # "init"
        => \A k \in DOMAIN cache :
              /\ k \in DOMAIN cache'
              /\ k # STATE_URL
                 => /\ Len(cache'[k]) = Len(cache[k])
                    /\ \A i \in DOMAIN cache[k] :
                          \A f \in DOMAIN cache[k][i] :
                              /\ f \in DOMAIN cache'[k][i]
                              /\ cache'[k][i][f] = cache[k][i][f] ]_vars

(* -------------------------------- C9 ----------------------------------- *)
\* C9: a sites-list gateway call is made only at the state prompt, with the
\* locator the resolved site index (held by the cache) gives for the typed
\* state; a nearby gateway call is made only at the site prompt, for the
\* chosen site of a state whose site records are in the cache, and is the
\* only call of its step, which adds no state entry and no site record.
C9_ResolutionOrder ==
    [][ \A i \in DOMAIN calls' :
          /\ calls'[i].gateway = "sites"
             => /\ AtStatePrompt
                /\ STATE_URL \in DOMAIN cache
                /\ state_urls = cache[STATE_URL]
                /\ Lower(input') \in DOMAIN state_urls
                /\ calls'[i].arg = state_urls[Lower(input')]
          /\ calls'[i].gateway = "nearby"
             => /\ AtSitePrompt
                /\ state_name \in DOMAIN cache
                /\ IsIntegerIn(input', 1, Len(cache[state_name]))
                /\ calls'[i].arg = cache[state_name][int(input')].zipcode
                /\ Len(calls') = 1
                /\ DOMAIN cache' = DOMAIN cache
                /\ Len(cache'[state_name]) = Len(cache[state_name]) ]_vars

\* a state's sites were fetched after the index had been fetched in this run
C9_Witness ==
    /\ pc = "viewing"
    /\ disk = NoFile
    /\ calls = <<Call("sites", MI_URL)>>
    /\ STATE_URL \in DOMAIN cache
    /\ MICHIGAN \in DOMAIN cache

(* -------------------------------- C10 ---------------------------------- *)
\* C10: the file changes only in a step that reads the exit command, and an
\* exit whose write succeeds leaves the file holding the entire in-memory
\* cache; every other step (fetches, cache updates, a run ending without
\* exit) leaves the file as it was.
C10_DiskWrittenOnlyAtExit ==
    [][ /\ disk' # disk => ExitTyped
        /\ (ExitTyped /\ raised' = "none") => disk' = Dumps(cache)
        /\ (pc' = "crashed" /\ raised' # "OSError") => disk' = disk ]_vars

\* the run fetched the index, a state and a nearby list, and exit wrote them
C10_Witness ==
    /\ pc = "exited"
    /\ disk = Dumps(cache)
    /\ MICHIGAN \in DOMAIN cache
    /\ Len(cache[MICHIGAN]) = 2
    /\ "nearby" \in DOMAIN cache[MICHIGAN][2]

(* -------------------------------- C11 ---------------------------------- *)
\* C11: once build_state_url_dict() has returned in a run, a further call
\* makes no state-index gateway call and returns a result equal to the
\* first, whatever mapping the gateway returned the first time.
C11_IndexResolvedOnce ==
    [][ pc = "choosing"
        => /\ \A i \in DOMAIN calls' : calls'[i].gateway # "index"
           /\ (pc' = "choosing" => state_urls' = state_urls) ]_vars

(* -------------------------------- C12 ---------------------------------- *)
\* C12: a state name that differs only in letter case from the name typed
\* at the state prompt before addresses the same key: it is accepted if
\* that one was and rejected if that one was, and when accepted it returns
\* the site records resolved for the earlier spelling without another
\* sites-list gateway call.
C12_CaseVariantsShareKey ==
    [][ (/\ AtStatePrompt
         /\ input' # typed_state
         /\ Lower(input') = Lower(typed_state)
         /\ state_name = Lower(typed_state)
         /\ state_name # EXIT)
        => IF state_name \in DOMAIN state_urls
           THEN state_name \in DOMAIN cache
                => /\ NoSitesCall(calls')
                   /\ pc' = "viewing"
                   /\ state_name' = state_name
                   /\ displayed' = display_sites_info(cache[state_name])
           ELSE /\ pc' = "choosing"
                /\ calls' = <<>> ]_vars

(* -------------------------------- C13 ---------------------------------- *)
\* no letter of the text is upper case
IsLowerCase(t) == \A i \in DOMAIN t : t[i] \notin DOMAIN LowerOf

\* k is t with every upper-case letter replaced, and nothing removed
IsLowerCaseOf(k, t) ==
    /\ Len(k) = Len(t)
    /\ IsLowerCase(k)
    /\ \A i \in DOMAIN t : k[i] = t[i] \/ (t[i] \in DOMAIN LowerOf /\ k[i] = LowerOf[t[i]])

StoredFor(raw, placeholder) == IF raw = "" THEN placeholder ELSE raw

\* C14: the nearby list a resolution writes has one record per raw match of
\* the answer, in order, each with non-empty category, address and city: an
\* empty raw value is stored as "no category", "no address" or "no city",
\* a non-empty one unchanged.
C14_NearbyPlaceholders ==
    [][ (AtSitePrompt /\ calls' # <<>> /\ raised' = "none")
        => LET n == int(input')
               raws == RawMatches(cache[state_name][n].zipcode)
               stored == cache'[state_name][n].nearby
           IN /\ Len(stored) <= Len(raws)
              /\ \A i \in DOMAIN stored :
                    /\ stored[i].name = raws[i].name
                    /\ stored[i].category = StoredFor(raws[i].fields.group_sic_code_name, "no category")
                    /\ stored[i].address = StoredFor(raws[i].fields.address, "no address")
                    /\ stored[i].city = StoredFor(raws[i].fields.city, "no city")
                    /\ "" \notin {stored[i].category, stored[i].address, stored[i].city} ]_vars

\* a match with empty group, address and city was just stored
C14_Witness ==
    /\ pc = "viewing"
    /\ state_name = MICHIGAN
    /\ input = <<"2">>
    /\ calls = <<Call("nearby", "")>>
    /\ raised = "none"
    /\ Len(cache[MICHIGAN][2].nearby) >= 1
    /\ cache[MICHIGAN][2].nearby[1] =
          [name |-> "Pier", category |-> "no category",
           address |-> "no address", city |-> "no city"]

(* -------------------------------- C15 ---------------------------------- *)
\* C15: when the flush of the exit command cannot write the file, the
\* process still ends normally: it reaches Exited with status 0.
C15_FlushFailureStillExits ==
    raised = "OSError" => (pc = "exited" /\ exit_status = 0)

(* -------------------------------- C16 ---------------------------------- *)
\* C16: a nearby list displayed for a site in this run stays attached to
\* that site record of the cache for the rest of the run, whatever states
\* are selected afterwards, and is part of the store a flush writes.
C16_AttachedNearbyStaysVisible ==
    \A key \in DOMAIN shown :
        /\ key[1] \in DOMAIN cache
        /\ key[2] \in DOMAIN cache[key[1]]
        /\ "nearby" \in DOMAIN cache[key[1]][key[2]]
        /\ display_nearby_places_info(cache[key[1]][key[2]].nearby) = shown[key]
        /\ pc = "exited"
           => /\ disk.kind = "json"
              /\ key[1] \in DOMAIN disk.doc
              /\ disk.doc[key[1]] = cache[key[1]]

\* Michigan was selected again after the nearby list of its first site was
\* fetched in this run, with Ohio resolved as well
C16_Witness ==
    /\ pc = "viewing"
    /\ disk = NoFile
    /\ input = MICHIGAN
    /\ calls = <<>>
    /\ <<MICHIGAN, 1>> \in DOMAIN shown
    /\ shown[<<MICHIGAN, 1>>] # <<>>
    /\ OHIO \in DOMAIN cache

(* -------------------------------- C17 ---------------------------------- *)
\* C17: choosing ordinal n for bound state s calls the nearby gateway with
\* the postal code of the record at position n of s's list and attaches the
\* result to that record only: its other fields, the other records of s,
\* the other state entries and the site index are unchanged.
C17_NearbyAttachedToChosenSiteOnly ==
    [][ (AtSitePrompt /\ calls' # <<>>)
        => /\ IsIntegerIn(input', 1, Len(cache[state_name]))
           /\ LET n == int(input') IN
              /\ calls' = <<Call("nearby", cache[state_name][n].zipcode)>>
              /\ state_urls' = state_urls
              /\ DOMAIN cache' = DOMAIN cache
              /\ \A k \in DOMAIN cache \ {state_name} : cache'[k] = cache[k]
              /\ Len(cache'[state_name]) = Len(cache[state_name])
              /\ \A i \in DOMAIN cache[state_name] \ {n} :
                    cache'[state_name][i] = cache[state_name][i]
              /\ \A f \in DOMAIN cache[state_name][n] :
                    cache'[state_name][n][f] = cache[state_name][n][f]
              /\ raised' = "none"
                 => DOMAIN cache'[state_name][n] =
                        DOMAIN cache[state_name][n] \cup {"nearby"} ]_vars

\* the second of two Michigan sites was chosen first, Ohio being cached too
C17_Witness ==
    /\ pc = "viewing"
    /\ state_name = MICHIGAN
    /\ input = <<"2">>
    /\ calls = <<Call("nearby", "")>>
    /\ raised = "none"
    /\ "nearby" \notin DOMAIN cache[MICHIGAN][1]
    /\ "nearby" \in DOMAIN cache[MICHIGAN][2]
    /\ OHIO \in DOMAIN cache

(* -------------------------------- C18 ---------------------------------- *)
\* C18: the file an exit writes loads as a store equal to the one flushed,
\* and a run started from a file written by an earlier exit serves what
\* the file holds (site index, states, nearby lists) without gateway call.
C18_FlushLoadRoundTrip ==
    [][ /\ (pc' = "exited" /\ pc # "exited")
           => open_cache(disk') = [type |-> "dict", items |-> cache]
        /\ (pc = "main" /\ disk.type = "dict" /\ STATE_URL \in DOMAIN disk.doc)
           => (calls' = <<>> /\ state_urls' = disk.doc[STATE_URL])
        /\ (/\ AtStatePrompt
            /\ Lower(input') \in DOMAIN state_urls
            /\ Lower(input') \in DOMAIN disk.doc)
           => (calls' = <<>> /\ pc' = "viewing")
        /\ (/\ AtSitePrompt
            /\ state_name \in DOMAIN disk.doc
            /\ IsIntegerIn(input', 1, Len(disk.doc[state_name]))
            /\ "nearby" \in DOMAIN disk.doc[state_name][int(input')])
           => /\ calls' = <<>>
              /\ pc' = "viewing"
              /\ displayed' = display_nearby_places_info(
                                  disk.doc[state_name][int(input')].nearby) ]_vars

=============================================================================
